---- MODULE Spec2Model ----
(***************************************************************************)
(* Model of src/Olelo.js: a left-leaning red-black tree of sayings keyed   *)
(* by their Hawaiian phrase (RedBlackTree), a word index (SayingsMap) and  *)
(* the facade composing them (OleloDatabase).                              *)
(*                                                                         *)
(* Objects live in heaps and are referred to by reference:                 *)
(*   - a Saying is a reference (its id) into the table SayingObj;          *)
(*   - a Node is an address into the variable heap.                        *)
(* Strings are sequences of UTF-16 code units (32 is the space).           *)
(***************************************************************************)
EXTENDS Integers, Sequences, FiniteSets, TLC

(***************************************************************************)
(* Bounds: the number of distinct phrases the callers insert, and the      *)
(* number of further Saying objects that repeat an already used phrase.    *)
(***************************************************************************)
NumKeys == 6
NumDup == 2

NULL == 0

(***************************************************************************)
(* The Saying objects the callers hold.                                    *)
(***************************************************************************)
RECURSIVE Os(_)
Os(n) == IF n <= 0 THEN <<>> ELSE <<79>> \o Os(n - 1)

HawaiianText(i) ==
  CASE i = 1 -> <<73>>                  \* "I"
    [] i = 2 -> <<65>>                  \* "A"
    [] i = 3 -> <<65, 75>>              \* "AK"
    [] i = 4 -> <<75, 32, 32, 69>>      \* "K  E"
    [] i = 5 -> <<65, 32, 79>>          \* "A O"
    [] i = 6 -> <<73, 76>>              \* "IL"
    [] i = 7 -> <<76>>                  \* "L"
    [] i = 8 -> <<69, 32, 85>>          \* "E U"
    [] OTHER -> Os(i - 8)               \* "O", "OO", ...

EnglishText(i) ==
  CASE i = 1 -> <<76>>                  \* "L"
    [] i = 2 -> <<76, 32, 79>>          \* "L O"
    [] i = 3 -> <<69>>                  \* "E"
    [] i = 4 -> <<32, 65>>              \* " A"
    [] i = 5 -> <<75>>                  \* "K"
    [] i = 6 -> <<85>>                  \* "U"
    [] OTHER -> <<73, 32>> \o Os(i - 6) \* "I O", "I OO", ...

NumSayings == NumKeys + NumDup

SayingIds == 1..NumSayings

\* Sayings 1..NumKeys have pairwise different phrases; saying NumKeys + j is
\* another object with the phrase of saying Original(j): the first with
\* another translation, the others with the same content as their original.
Original(j) == ((2 * j - 2) % NumKeys) + 1

Saying(i) ==
  IF i <= NumKeys
  THEN [hawaiian |-> HawaiianText(i), english |-> EnglishText(i)]
  ELSE [hawaiian |-> HawaiianText(Original(i - NumKeys)),
        english |-> IF i = NumKeys + 1 THEN <<78>>
                    ELSE EnglishText(Original(i - NumKeys))]

SayingObj == [i \in SayingIds |-> Saying(i)]

(***************************************************************************)
(* String comparison (the < and > of the code, on code units).             *)
(***************************************************************************)
RECURSIVE StrLessFrom(_, _, _)
StrLessFrom(a, b, i) ==
  IF i > Len(a) THEN i <= Len(b)
  ELSE IF i > Len(b) THEN FALSE
  ELSE IF a[i] < b[i] THEN TRUE
  ELSE IF a[i] > b[i] THEN FALSE
  ELSE StrLessFrom(a, b, i + 1)

StrLess(a, b) == StrLessFrom(a, b, 1)

StrGreater(a, b) == StrLess(b, a)

(***************************************************************************)
(* State.                                                                  *)
(***************************************************************************)
VARIABLES
  heap,         \* the Node objects reachable from the tree: address -> Node
  root,         \* RedBlackTree.root: an address or NULL
  hawaiianMap,  \* SayingsMap.hawaiianMap: word -> Set (in insertion order)
  englishMap,   \* SayingsMap.englishMap
  lastCall,     \* the latest call on the database and its outcome
  insertedKeys  \* history: the phrases of the sayings passed to insert so far

vars == <<heap, root, hawaiianMap, englishMap, lastCall, insertedKeys>>

\* Values passed to and returned by the calls.
ObjVal(r) == [type |-> "object", ref |-> r, str |-> <<>>, list |-> <<>>, bool |-> FALSE]
StrVal(s) == [type |-> "string", ref |-> NULL, str |-> s, list |-> <<>>, bool |-> FALSE]
NullVal == [type |-> "null", ref |-> NULL, str |-> <<>>, list |-> <<>>, bool |-> FALSE]
UndefVal == [type |-> "undefined", ref |-> NULL, str |-> <<>>, list |-> <<>>, bool |-> FALSE]
BoolVal(b) == [type |-> "boolean", ref |-> NULL, str |-> <<>>, list |-> <<>>, bool |-> b]
ArrVal(l) == [type |-> "array", ref |-> NULL, str |-> <<>>, list |-> l, bool |-> FALSE]

\* A reference to a saying, or null.
RefVal(r) == IF r = NULL THEN NullVal ELSE ObjVal(r)

Call(op, arg, ret, thrown) == [op |-> op, arg |-> arg, ret |-> ret, thrown |-> thrown]

(***************************************************************************)
(* Node.                                                                   *)
(***************************************************************************)
Node(saying) == [saying |-> saying, left |-> NULL, right |-> NULL, color |-> "RED"]

\* The address of a new Node: any address that is free.  Addresses are not
\* observable, so the choice is the saying's id when free, the next one else.
Alloc(h, saying) ==
  IF saying \notin DOMAIN h THEN saying
  ELSE NumSayings + 1

\* The phrase a node is keyed by.
KeyOf(h, node) == SayingObj[h[node].saying].hawaiian

(***************************************************************************)
(* RedBlackTree.                                                           *)
(***************************************************************************)
_isRed(h, node) ==
  IF node = NULL THEN FALSE
  ELSE h[node].color = "RED"

\* _rotateLeft without the two colour assignments.
_rotateLeft_keepColors(h, node) ==
  LET rightChild == h[node].right
      h1 == [h EXCEPT ![node].right = h[rightChild].left]
      h2 == [h1 EXCEPT ![rightChild].left = node]
  IN [heap |-> h2, ret |-> rightChild]

\* _rotateLeft dropping the left subtree of the right child.
_rotateLeft_dropSubtree(h, node) ==
  LET rightChild == h[node].right
      h1 == [h EXCEPT ![node].right = NULL]
      h2 == [h1 EXCEPT ![rightChild].left = node]
      h3 == [h2 EXCEPT ![rightChild].color = h2[node].color]
      h4 == [h3 EXCEPT ![node].color = "RED"]
  IN [heap |-> h4, ret |-> rightChild]

_rotateLeft(h, node) ==
  LET rightChild == h[node].right
      h1 == [h EXCEPT ![node].right = h[rightChild].left]
      h2 == [h1 EXCEPT ![rightChild].left = node]
      h3 == [h2 EXCEPT ![rightChild].color = h2[node].color]
      h4 == [h3 EXCEPT ![node].color = "RED"]
  IN [heap |-> h4, ret |-> rightChild]

_rotateRight(h, node) ==
  LET leftChild == h[node].left
      h1 == [h EXCEPT ![node].left = h[leftChild].right]
      h2 == [h1 EXCEPT ![leftChild].right = node]
      h3 == [h2 EXCEPT ![leftChild].color = h2[node].color]
      h4 == [h3 EXCEPT ![node].color = "RED"]
  IN [heap |-> h4, ret |-> leftChild]

_flipColors(h, node) ==
  LET h1 == [h EXCEPT ![node].color = "RED"]
      h2 == [h1 EXCEPT ![h1[node].left].color = "BLACK"]
  IN [h2 EXCEPT ![h2[node].right].color = "BLACK"]

\* _balance with an empty body.
_balance_empty(h, node) == [heap |-> h, ret |-> node]

\* _balance without the rotation to the left.
_balance_noRotateLeft(h, node) ==
  LET s1 == [heap |-> h, ret |-> node]
      s2 == IF /\ _isRed(s1.heap, s1.heap[s1.ret].left)
               /\ _isRed(s1.heap, s1.heap[s1.heap[s1.ret].left].left)
            THEN _rotateRight(s1.heap, s1.ret)
            ELSE s1
      s3 == IF /\ _isRed(s2.heap, s2.heap[s2.ret].left)
               /\ _isRed(s2.heap, s2.heap[s2.ret].right)
            THEN [heap |-> _flipColors(s2.heap, s2.ret), ret |-> s2.ret]
            ELSE s2
  IN s3

_balance(h, node) ==
  LET s1 == IF _isRed(h, h[node].right) /\ ~_isRed(h, h[node].left)
            THEN _rotateLeft(h, node)
            ELSE [heap |-> h, ret |-> node]
      s2 == IF /\ _isRed(s1.heap, s1.heap[s1.ret].left)
               /\ _isRed(s1.heap, s1.heap[s1.heap[s1.ret].left].left)
            THEN _rotateRight(s1.heap, s1.ret)
            ELSE s1
      s3 == IF /\ _isRed(s2.heap, s2.heap[s2.ret].left)
               /\ _isRed(s2.heap, s2.heap[s2.ret].right)
            THEN [heap |-> _flipColors(s2.heap, s2.ret), ret |-> s2.ret]
            ELSE s2
  IN s3

RECURSIVE _insert(_, _, _)
\* _insert descending to the left for a greater phrase too.
_insert_wrongSide(h, node, newNode) ==
  IF node = NULL THEN [heap |-> h, ret |-> newNode]
  ELSE IF StrLess(KeyOf(h, newNode), KeyOf(h, node))
  THEN LET r == _insert(h, h[node].left, newNode)
       IN _balance([r.heap EXCEPT ![node].left = r.ret], node)
  ELSE IF StrGreater(KeyOf(h, newNode), KeyOf(h, node))
  THEN LET r == _insert(h, h[node].left, newNode)
       IN _balance([r.heap EXCEPT ![node].left = r.ret], node)
  ELSE _balance(h, node)

\* _insert storing the new saying in the node that has its phrase.
_insert_overwrite(h, node, newNode) ==
  IF node = NULL THEN [heap |-> h, ret |-> newNode]
  ELSE IF StrLess(KeyOf(h, newNode), KeyOf(h, node))
  THEN LET r == _insert(h, h[node].left, newNode)
       IN _balance([r.heap EXCEPT ![node].left = r.ret], node)
  ELSE IF StrGreater(KeyOf(h, newNode), KeyOf(h, node))
  THEN LET r == _insert(h, h[node].right, newNode)
       IN _balance([r.heap EXCEPT ![node].right = r.ret], node)
  ELSE _balance([h EXCEPT ![node].saying = h[newNode].saying], node)

_insert(h, node, newNode) ==
  IF node = NULL THEN [heap |-> h, ret |-> newNode]
  ELSE IF StrLess(KeyOf(h, newNode), KeyOf(h, node))
  THEN LET r == _insert(h, h[node].left, newNode)
       IN _balance([r.heap EXCEPT ![node].left = r.ret], node)
  ELSE IF StrGreater(KeyOf(h, newNode), KeyOf(h, node))
  THEN LET r == _insert(h, h[node].right, newNode)
       IN _balance([r.heap EXCEPT ![node].right = r.ret], node)
  ELSE _balance(h, node)

\* The addresses reachable from a node.
RECURSIVE Reach(_, _)
Reach(h, node) ==
  IF node = NULL THEN {}
  ELSE {node} \cup Reach(h, h[node].left) \cup Reach(h, h[node].right)

\* A Node no reference leads to is gone.
Collect(h, rt) == [a \in Reach(h, rt) |-> h[a]]

\* insert without painting the root black.
insert_rootUnpainted(h, rt, saying) ==
  LET newNode == Alloc(h, saying)
      h0 == [a \in DOMAIN h \cup {newNode} |-> IF a = newNode THEN Node(saying) ELSE h[a]]
      r == _insert(h0, rt, newNode)
  IN [heap |-> Collect(r.heap, r.ret), root |-> r.ret]

\* RedBlackTree.insert: the tree (heap and root) when the call returns.
insert(h, rt, saying) ==
  LET newNode == Alloc(h, saying)
      h0 == [a \in DOMAIN h \cup {newNode} |-> IF a = newNode THEN Node(saying) ELSE h[a]]
      r == _insert(h0, rt, newNode)
      h1 == [r.heap EXCEPT ![r.ret].color = "BLACK"]
  IN [heap |-> Collect(h1, r.ret), root |-> r.ret]

\* What a call hands back to its caller: a value, or an exception.
Return(v) == [ret |-> v, thrown |-> "none"]
Throw(e) == [ret |-> UndefVal, thrown |-> e]

RECURSIVE _search(_, _, _)
_search(h, node, hawaiian) ==
  IF node = NULL THEN NULL
  ELSE IF StrLess(hawaiian, KeyOf(h, node)) THEN _search(h, h[node].left, hawaiian)
  ELSE IF StrGreater(hawaiian, KeyOf(h, node)) THEN _search(h, h[node].right, hawaiian)
  ELSE h[node].saying

search(h, rt, hawaiian) == _search(h, rt, hawaiian)

\* !!x of a reference: false for null, true for an object.
member(h, rt, hawaiian) == search(h, rt, hawaiian) # NULL

\* The while loop of first(), entered with a node that is not null.
RECURSIVE firstLoop(_, _)
firstLoop(h, node) ==
  IF h[node].left # NULL THEN firstLoop(h, h[node].left)
  ELSE node

\* first() returning null on an empty tree.
first_nullOnEmpty(h, rt) ==
  IF rt = NULL THEN Return(NullVal)
  ELSE Return(RefVal(h[firstLoop(h, rt)].saying))

\* Reading node.left of null throws a TypeError.
first(h, rt) ==
  IF rt = NULL THEN Throw("TypeError")
  ELSE Return(RefVal(h[firstLoop(h, rt)].saying))

RECURSIVE lastLoop(_, _)
lastLoop(h, node) ==
  IF h[node].right # NULL THEN lastLoop(h, h[node].right)
  ELSE node

\* last() without the descent.
last_noDescent(h, rt) ==
  IF rt = NULL THEN Throw("TypeError")
  ELSE Return(RefVal(h[rt].saying))

last(h, rt) ==
  IF rt = NULL THEN Throw("TypeError")
  ELSE Return(RefVal(h[lastLoop(h, rt)].saying))

\* typeof of a value.
typeof(v) == IF v.type \in {"object", "null", "array"} THEN "object" ELSE v.type

\* typeof saying === 'object' && saying !== null ? saying.hawaiian : saying,
\* for an argument that is a Saying or a string.
hawaiianOf(saying) ==
  IF typeof(saying) = "object" /\ saying.type # "null"
  THEN SayingObj[saying.ref].hawaiian
  ELSE saying.str

RECURSIVE predecessorLoop(_, _, _, _)
\* The loop of predecessor taking a node of the same phrase as a candidate.
predecessorLoop_orEqual(h, current, pred, hawaiian) ==
  IF current = NULL THEN pred
  ELSE IF ~StrLess(hawaiian, KeyOf(h, current))
  THEN predecessorLoop(h, h[current].right, current, hawaiian)
  ELSE predecessorLoop(h, h[current].left, pred, hawaiian)

predecessorLoop(h, current, pred, hawaiian) ==
  IF current = NULL THEN pred
  ELSE IF StrGreater(hawaiian, KeyOf(h, current))
  THEN predecessorLoop(h, h[current].right, current, hawaiian)
  ELSE predecessorLoop(h, h[current].left, pred, hawaiian)

predecessor(h, rt, saying) ==
  LET pred == predecessorLoop(h, rt, NULL, hawaiianOf(saying))
  IN IF pred # NULL THEN h[pred].saying ELSE NULL

RECURSIVE successorLoop(_, _, _, _)
successorLoop(h, current, succ, hawaiian) ==
  IF current = NULL THEN succ
  ELSE IF StrLess(hawaiian, KeyOf(h, current))
  THEN successorLoop(h, h[current].left, current, hawaiian)
  ELSE successorLoop(h, h[current].right, succ, hawaiian)

successor(h, rt, saying) ==
  LET succ == successorLoop(h, rt, NULL, hawaiianOf(saying))
  IN IF succ # NULL THEN h[succ].saying ELSE NULL

(***************************************************************************)
(* RedBlackTree of src/unnamed/part_000, a draft of the same class.  Its   *)
(* Node class and its search are those above; the definitions that differ  *)
(* carry the prefix P0.                                                    *)
(***************************************************************************)
\* _insert: the line after the descent evaluates _.balance(node), and the
\* name _ is not declared, which throws a ReferenceError.  The assignment to
\* node.left or node.right before it has been done when the descent returned.
RECURSIVE P0__insert(_, _, _)
P0__insert(h, node, newNode) ==
  IF node = NULL THEN [heap |-> h, ret |-> newNode, thrown |-> "none"]
  ELSE IF StrLess(KeyOf(h, newNode), KeyOf(h, node))
  THEN LET r == P0__insert(h, h[node].left, newNode)
       IN IF r.thrown # "none" THEN [heap |-> r.heap, ret |-> NULL, thrown |-> r.thrown]
          ELSE [heap |-> [r.heap EXCEPT ![node].left = r.ret], ret |-> NULL,
                thrown |-> "ReferenceError"]
  ELSE IF StrGreater(KeyOf(h, newNode), KeyOf(h, node))
  THEN LET r == P0__insert(h, h[node].right, newNode)
       IN IF r.thrown # "none" THEN [heap |-> r.heap, ret |-> NULL, thrown |-> r.thrown]
          ELSE [heap |-> [r.heap EXCEPT ![node].right = r.ret], ret |-> NULL,
                thrown |-> "ReferenceError"]
  ELSE [heap |-> h, ret |-> NULL, thrown |-> "ReferenceError"]

\* insert: when _insert throws, this.root is not assigned and the root is not
\* painted, but the nodes _insert has linked stay linked.
P0_insert(h, rt, saying) ==
  LET newNode == Alloc(h, saying)
      h0 == [a \in DOMAIN h \cup {newNode} |-> IF a = newNode THEN Node(saying) ELSE h[a]]
      r == P0__insert(h0, rt, newNode)
  IN IF r.thrown # "none"
     THEN [heap |-> Collect(r.heap, rt), root |-> rt, thrown |-> r.thrown]
     ELSE [heap |-> Collect([r.heap EXCEPT ![r.ret].color = "BLACK"], r.ret),
           root |-> r.ret, thrown |-> "none"]

\* hawaiian < current.saying.hawiian: the property hawiian does not exist, so
\* a string is compared with undefined; undefined converts to NaN and every
\* comparison with NaN is false.
P0_lessThanHawiian(hawaiian, h, current) == FALSE

RECURSIVE P0_successorLoop(_, _, _, _)
P0_successorLoop(h, current, succ, hawaiian) ==
  IF current = NULL THEN succ
  ELSE IF P0_lessThanHawiian(hawaiian, h, current)
  THEN P0_successorLoop(h, h[current].left, current, hawaiian)
  ELSE P0_successorLoop(h, h[current].right, succ, hawaiian)

\* successor(hawaiian), for a string argument.
P0_successor(h, rt, hawaiian) ==
  LET succ == P0_successorLoop(h, rt, NULL, hawaiian)
  IN IF succ # NULL THEN h[succ].saying ELSE NULL

(***************************************************************************)
(* SayingsMap.                                                             *)
(***************************************************************************)
\* \s of the regular expression, among the code units in use.
IsSpace(c) == c \in {9, 10, 11, 12, 13, 32}

\* text.split(/\s+/): the pieces between the maximal runs of white space.
RECURSIVE splitFrom(_, _, _, _)
splitFrom(text, i, words, word) ==
  IF i > Len(text) THEN Append(words, word)
  ELSE IF IsSpace(text[i])
  THEN IF i > 1 /\ IsSpace(text[i - 1])
       THEN splitFrom(text, i + 1, words, word)
       ELSE splitFrom(text, i + 1, Append(words, word), <<>>)
  ELSE splitFrom(text, i + 1, words, Append(word, text[i]))

split(text) == splitFrom(text, 1, <<>>, <<>>)

\* Set.add: a Set keeps its members in insertion order, each once.
SetAdd(set, saying) ==
  IF \E i \in 1..Len(set) : set[i] = saying THEN set
  ELSE Append(set, saying)

\* The body of the forEach of _addToMap for one word.
addWord(map, word, saying) ==
  LET map1 == IF word \notin DOMAIN map
              THEN [w \in DOMAIN map \cup {word} |-> IF w = word THEN <<>> ELSE map[w]]
              ELSE map
  IN [map1 EXCEPT ![word] = SetAdd(map1[word], saying)]

RECURSIVE forEachWord(_, _, _, _)
forEachWord(words, i, saying, map) ==
  IF i > Len(words) THEN map
  ELSE forEachWord(words, i + 1, saying, addWord(map, words[i], saying))

_addToMap(text, saying, map) == forEachWord(split(text), 1, saying, map)

\* SayingsMap.addSaying: the two maps when the call returns.
addSaying(hm, em, saying) ==
  [hawaiianMap |-> _addToMap(SayingObj[saying].hawaiian, saying, hm),
   englishMap |-> _addToMap(SayingObj[saying].english, saying, em)]

searchHawaiian(hm, word) == IF word \in DOMAIN hm THEN hm[word] ELSE <<>>

searchEnglish(em, word) == IF word \in DOMAIN em THEN em[word] ELSE <<>>

(***************************************************************************)
(* OleloDatabase.                                                          *)
(***************************************************************************)
EmptyMap == [w \in {} |-> <<>>]

Init ==
  /\ heap = [a \in {} |-> Node(NULL)]
  /\ root = NULL
  /\ hawaiianMap = EmptyMap
  /\ englishMap = EmptyMap
  /\ lastCall = Call("new", UndefVal, UndefVal, "none")
  /\ insertedKeys = {}

\* The phrases and words the callers ask about: those of their sayings, and
\* some that no saying has (below, between and above the phrases in use).
AbsentKeys == {<<>>, <<65, 65>>, <<90>>}

QueryKeys == {SayingObj[i].hawaiian : i \in SayingIds} \cup AbsentKeys

QueryRefs == {ObjVal(i) : i \in SayingIds} \cup {StrVal(k) : k \in QueryKeys}

QueryWords == {<<>>, <<65>>, <<73>>, <<76>>, <<78>>, <<79>>, <<90>>}

\* RedBlackTree.insert(saying), called on the tree of the database
TreeInsert ==
  \E saying \in SayingIds :
    LET t == insert(heap, root, saying)
    IN /\ heap' = t.heap
       /\ root' = t.root
       /\ lastCall' = Call("insert", ObjVal(saying), UndefVal, "none")
       /\ insertedKeys' = insertedKeys \cup {SayingObj[saying].hawaiian}
       /\ UNCHANGED <<hawaiianMap, englishMap>>

\* search(hawaiian)
Search ==
  \E k \in QueryKeys :
    /\ lastCall' = Call("search", StrVal(k), RefVal(search(heap, root, k)), "none")
    /\ UNCHANGED <<heap, root, hawaiianMap, englishMap, insertedKeys>>

\* member(hawaiian)
Member ==
  \E k \in QueryKeys :
    /\ lastCall' = Call("member", StrVal(k), BoolVal(member(heap, root, k)), "none")
    /\ UNCHANGED <<heap, root, hawaiianMap, englishMap, insertedKeys>>

\* first()
First ==
  LET r == first(heap, root)
  IN /\ lastCall' = Call("first", UndefVal, r.ret, r.thrown)
     /\ UNCHANGED <<heap, root, hawaiianMap, englishMap, insertedKeys>>

\* last()
Last ==
  LET r == last(heap, root)
  IN /\ lastCall' = Call("last", UndefVal, r.ret, r.thrown)
     /\ UNCHANGED <<heap, root, hawaiianMap, englishMap, insertedKeys>>

\* predecessor(saying)
Predecessor ==
  \E q \in QueryRefs :
    /\ lastCall' = Call("predecessor", q, RefVal(predecessor(heap, root, q)), "none")
    /\ UNCHANGED <<heap, root, hawaiianMap, englishMap, insertedKeys>>

\* successor(saying)
Successor ==
  \E q \in QueryRefs :
    /\ lastCall' = Call("successor", q, RefVal(successor(heap, root, q)), "none")
    /\ UNCHANGED <<heap, root, hawaiianMap, englishMap, insertedKeys>>

\* MeHua(word)
MeHua ==
  \E w \in QueryWords :
    /\ lastCall' = Call("MeHua", StrVal(w), ArrVal(searchHawaiian(hawaiianMap, w)), "none")
    /\ UNCHANGED <<heap, root, hawaiianMap, englishMap, insertedKeys>>

\* WithWord(word)
WithWord ==
  \E w \in QueryWords :
    /\ lastCall' = Call("WithWord", StrVal(w), ArrVal(searchEnglish(englishMap, w)), "none")
    /\ UNCHANGED <<heap, root, hawaiianMap, englishMap, insertedKeys>>

\* OleloDatabase.insert(saying)
DbInsert ==
  \E saying \in SayingIds :
    LET t == insert(heap, root, saying)
        m == addSaying(hawaiianMap, englishMap, saying)
    IN /\ heap' = t.heap
       /\ root' = t.root
       /\ hawaiianMap' = m.hawaiianMap
       /\ englishMap' = m.englishMap
       /\ lastCall' = Call("insert", ObjVal(saying), UndefVal, "none")
       /\ insertedKeys' = insertedKeys \cup {SayingObj[saying].hawaiian}

\* The calls on the tree.
Next ==
  \/ TreeInsert
  \/ Search
  \/ Member
  \/ First
  \/ Last
  \/ Predecessor
  \/ Successor

Spec == Init /\ [][Next]_vars

\* The calls on the database that involve the word index.
NextDb ==
  \/ DbInsert
  \/ MeHua
  \/ WithWord

SpecDb == Init /\ [][NextDb]_vars

\* RedBlackTree.insert(saying) of part_000
P0_Insert ==
  \E saying \in SayingIds :
    LET t == P0_insert(heap, root, saying)
    IN /\ heap' = t.heap
       /\ root' = t.root
       /\ lastCall' = Call("insert", ObjVal(saying), UndefVal, t.thrown)
       /\ insertedKeys' = insertedKeys \cup {SayingObj[saying].hawaiian}
       /\ UNCHANGED <<hawaiianMap, englishMap>>

\* RedBlackTree.successor(hawaiian) of part_000
P0_Successor ==
  \E k \in QueryKeys :
    /\ lastCall' = Call("successor", StrVal(k), RefVal(P0_successor(heap, root, k)), "none")
    /\ UNCHANGED <<heap, root, hawaiianMap, englishMap, insertedKeys>>

\* The calls on the tree of part_000.
NextP0 ==
  \/ P0_Insert
  \/ P0_Successor

SpecP0 == Init /\ [][NextP0]_vars

(***************************************************************************)
(* Properties.                                                             *)
(***************************************************************************)
\* The sayings the tree holds.
Stored == {heap[a].saying : a \in DOMAIN heap}

PhraseOf(s) == SayingObj[s].hawaiian

\* The phrases in the subtree of a node.
SubtreeKeys(node) == {KeyOf(heap, a) : a \in Reach(heap, node)}

\* The phrases of the subtree of a node, left to right.
RECURSIVE Inorder(_)
Inorder(node) ==
  IF node = NULL THEN <<>>
  ELSE Inorder(heap[node].left) \o <<KeyOf(heap, node)>> \o Inorder(heap[node].right)

\* The numbers of black nodes met on the paths from a node down to an absent
\* child, the absent child counted as a black leaf.
RECURSIVE BlackCounts(_)
BlackCounts(node) ==
  IF node = NULL THEN {1}
  ELSE LET below == BlackCounts(heap[node].left) \cup BlackCounts(heap[node].right)
       IN IF heap[node].color = "BLACK" THEN {c + 1 : c \in below} ELSE below

\* The number of nodes on the longest path from a node down to a leaf.
RECURSIVE Height(_)
Height(node) ==
  IF node = NULL THEN 0
  ELSE LET l == Height(heap[node].left)
           r == Height(heap[node].right)
       IN 1 + (IF l >= r THEN l ELSE r)

RECURSIVE Pow2(_)
Pow2(n) == IF n = 0 THEN 1 ELSE 2 * Pow2(n - 1)

\* C1: after any sequence of inserts the tree is a binary search tree: at
\* every node the phrases of the left subtree are strictly less and those of
\* the right subtree strictly greater than the node's phrase, and the
\* in-order traversal is strictly increasing (so has no duplicates).
C1_BSTOrder ==
  /\ \A n \in DOMAIN heap :
       /\ \A k \in SubtreeKeys(heap[n].left) : StrLess(k, KeyOf(heap, n))
       /\ \A k \in SubtreeKeys(heap[n].right) : StrLess(KeyOf(heap, n), k)
  /\ LET io == Inorder(root)
     IN \A i \in 1..(Len(io) - 1) : StrLess(io[i], io[i + 1])

\* A tree of all the phrases, reached by an insert of a phrase it held.
C1_Witness ==
  /\ lastCall.op = "insert"
  /\ Cardinality(DOMAIN heap) = NumKeys
  /\ lastCall.arg.ref \notin Stored
  /\ heap[root].left # NULL /\ heap[root].right # NULL

\* C2: after any sequence of inserts every path from the root to an absent
\* child passes through the same number of black nodes.
C2_BlackBalance == Cardinality(BlackCounts(root)) = 1

\* A tree with three black nodes on every path.
C2_Witness ==
  /\ lastCall.op = "insert"
  /\ BlackCounts(root) = {3}
  /\ \E a \in DOMAIN heap : heap[a].color = "RED"

\* C8: when insert has returned, the root, if there is one, is black.
C8_RootBlack == root # NULL => heap[root].color = "BLACK"

\* A tree whose root has come out of a colour flip: both children black.
C8_Witness ==
  /\ lastCall.op = "insert"
  /\ root # NULL
  /\ heap[root].left # NULL /\ heap[root].right # NULL
  /\ heap[heap[root].left].color = "BLACK"
  /\ heap[heap[root].right].color = "BLACK"

\* C9: with n distinct phrases stored (n >= 1), the height h of the tree
\* satisfies 2^h <= (n + 1)^2.
C9_HeightBound ==
  LET n == Cardinality(insertedKeys)
  IN n >= 1 => Pow2(Height(root)) <= (n + 1) * (n + 1)

\* All the phrases inserted, the tree higher than a perfect tree would be.
C9_Witness ==
  /\ Cardinality(insertedKeys) = NumKeys
  /\ Pow2(Height(root)) > 2 * NumKeys

\* C3: an insert of an entry whose phrase the tree does not hold makes search
\* of the phrase return that entry; no later call changes what search returns
\* for a phrase the tree holds; and search of a phrase that was never
\* inserted returns null.
C3_RoundTrip ==
  /\ [](\A k \in QueryKeys : k \notin insertedKeys => search(heap, root, k) = NULL)
  /\ [][/\ (lastCall'.op = "insert"
             /\ search(heap, root, PhraseOf(lastCall'.arg.ref)) = NULL)
            => search(heap', root', PhraseOf(lastCall'.arg.ref)) = lastCall'.arg.ref
        /\ (heap' # heap \/ root' # root)
            => \A s \in SayingIds :
                 search(heap, root, PhraseOf(s)) = s => search(heap', root', PhraseOf(s)) = s]_vars

\* Every phrase has been inserted, the first one inserted is not at the root
\* any more, and search still returns each stored entry.
C3_Witness ==
  /\ lastCall.op = "search"
  /\ lastCall.ret.type = "object"
  /\ lastCall.ret.ref # heap[root].saying
  /\ Cardinality(insertedKeys) = NumKeys
  /\ \A s \in Stored : search(heap, root, PhraseOf(s)) = s

\* C4: an insert of an entry whose phrase the tree already holds leaves the
\* tree as it was (nodes, links, colours, stored entries) and raises no error.
C4_DuplicateNoOp ==
  [][(lastCall'.op = "insert" /\ search(heap, root, PhraseOf(lastCall'.arg.ref)) # NULL)
       => /\ heap' = heap
          /\ root' = root
          /\ lastCall'.thrown = "none"]_vars

\* An insert of another entry with a phrase the tree holds has returned.
C4_Witness ==
  /\ lastCall.op = "insert"
  /\ lastCall.arg.ref \notin Stored
  /\ search(heap, root, PhraseOf(lastCall.arg.ref)) # NULL
  /\ Cardinality(Stored) >= 3

\* The phrase a reference point stands for.
ArgKey(q) == IF q.type = "object" THEN PhraseOf(q.ref) ELSE q.str

\* The stored entry with the greatest phrase strictly less than k, or null.
GreatestBelow(k) ==
  LET below == {s \in Stored : StrLess(PhraseOf(s), k)}
  IN IF below = {} THEN NULL
     ELSE CHOOSE s \in below : \A t \in below : ~StrLess(PhraseOf(s), PhraseOf(t))

\* The stored entry with the least phrase strictly greater than k, or null.
LeastAbove(k) ==
  LET above == {s \in Stored : StrLess(k, PhraseOf(s))}
  IN IF above = {} THEN NULL
     ELSE CHOOSE s \in above : \A t \in above : ~StrLess(PhraseOf(t), PhraseOf(s))

\* C5: predecessor(q) is the stored entry with the greatest phrase strictly
\* less than q and successor(q) the one with the least phrase strictly
\* greater, null exactly when there is none, for q a phrase (stored or not)
\* or an entry.
C5_Neighbours ==
  \A q \in QueryRefs :
    /\ predecessor(heap, root, q) = GreatestBelow(ArgKey(q))
    /\ successor(heap, root, q) = LeastAbove(ArgKey(q))

\* predecessor of a phrase that was never inserted, lying between two stored
\* phrases, has returned an entry.
C5_Witness ==
  /\ lastCall.op = "predecessor"
  /\ lastCall.arg.type = "string"
  /\ lastCall.arg.str \notin insertedKeys
  /\ lastCall.ret.type = "object"
  /\ successor(heap, root, lastCall.arg) # NULL
  /\ Cardinality(Stored) >= 4

\* C6: on a tree that is not empty, first() returns the stored entry whose
\* phrase is the smallest of the phrases inserted so far, last() the one
\* whose phrase is the largest.
C6_FirstLast ==
  root # NULL =>
    LET f == first(heap, root)
        l == last(heap, root)
    IN /\ f.thrown = "none" /\ f.ret.type = "object" /\ f.ret.ref \in Stored
       /\ PhraseOf(f.ret.ref) \in insertedKeys
       /\ \A k \in insertedKeys : ~StrLess(k, PhraseOf(f.ret.ref))
       /\ l.thrown = "none" /\ l.ret.type = "object" /\ l.ret.ref \in Stored
       /\ PhraseOf(l.ret.ref) \in insertedKeys
       /\ \A k \in insertedKeys : ~StrLess(PhraseOf(l.ret.ref), k)

\* last() has returned an entry that is not the root's, in a tree where
\* first() returns an entry two levels below the root.
C6_Witness ==
  /\ lastCall.op = "last"
  /\ lastCall.ret.type = "object"
  /\ root # NULL
  /\ lastCall.ret.ref # heap[root].saying
  /\ heap[root].left # NULL
  /\ heap[heap[root].left].left # NULL
  /\ first(heap, root).ret.ref = heap[heap[heap[root].left].left].saying

\* C7: first() and last() on a tree without nodes throw: they return nothing
\* and the tree stays empty.
C7_EmptyTreeThrows ==
  [][(lastCall'.op \in {"first", "last"} /\ root = NULL)
       => /\ lastCall'.thrown # "none"
          /\ lastCall'.ret = UndefVal
          /\ root' = NULL
          /\ heap' = heap]_vars

\* first() has thrown on the empty tree.
C7_Witness ==
  /\ lastCall.op = "first"
  /\ lastCall.thrown = "TypeError"
  /\ root = NULL
  /\ insertedKeys = {}

\* C10: every entry the word index returns for a word is an entry the tree
\* holds: search of its phrase returns that same object.
C10_IndexedAreStored ==
  /\ \A w \in DOMAIN hawaiianMap : \A i \in 1..Len(searchHawaiian(hawaiianMap, w)) :
       LET s == searchHawaiian(hawaiianMap, w)[i]
       IN search(heap, root, PhraseOf(s)) = s
  /\ \A w \in DOMAIN englishMap : \A i \in 1..Len(searchEnglish(englishMap, w)) :
       LET s == searchEnglish(englishMap, w)[i]
       IN search(heap, root, PhraseOf(s)) = s

\* The colour of a child slot: an absent child is black.
ColourOf(node) == IF node = NULL THEN "BLACK" ELSE heap[node].color

\* C11: after any sequence of inserts red links lean left and do not chain:
\* no node has a red right child, and no red node has a red left child.
C11_LeftLeaning ==
  \A n \in DOMAIN heap :
    /\ ColourOf(heap[n].right) # "RED"
    /\ heap[n].color = "RED" => ColourOf(heap[n].left) # "RED"

\* The entry inserted last has the greatest phrase so far, so its node was
\* linked as a right child, and it now has a red left child: the pass has
\* rotated it to the left.
C11_Witness ==
  /\ lastCall.op = "insert"
  /\ lastCall.arg.ref \in Stored
  /\ \A k \in insertedKeys : ~StrLess(PhraseOf(lastCall.arg.ref), k)
  /\ \E n \in DOMAIN heap :
       /\ heap[n].saying = lastCall.arg.ref
       /\ ColourOf(heap[n].left) = "RED"
  /\ Cardinality(Stored) >= 4

\* C12: in the tree of part_000, successor(hawaiian) returns the stored saying
\* with the least phrase strictly greater than the argument, and null only
\* when no stored phrase is greater.
C12_SuccessorP0 ==
  \A k \in QueryKeys : P0_successor(heap, root, k) = LeastAbove(k)

====
